---- MODULE Spec2Model ----
(***************************************************************************)
(* Model of BatchParametricExport.py: the value-list parsers, the          *)
(* combination engine, the filename templater and the export driver        *)
(* (ExecuteHandler.notify) with its visibility snapshot / isolation.       *)
(*                                                                         *)
(* Python strings are sequences of one-character strings.  A Python float  *)
(* is the record [m, e] standing for m * 10^(-e), normalised so that equal *)
(* numbers are equal records.  A function that can raise returns a record  *)
(* with ok = FALSE and the exception's name.                               *)
(***************************************************************************)
EXTENDS Integers, Sequences, FiniteSets, TLC

VARIABLES
    fn_in,      \* argument(s) of the pure function under check
    fn_out,     \* its result, or NotRun before the call
    fn_pc       \* "call" before the call, "ret" after it

fnVars == <<fn_in, fn_out, fn_pc>>

VARIABLES
    design,     \* the host document: parameter expressions, visibility flags, recompute bookkeeping
    inputs,     \* the dialog's command inputs (check boxes, text fields, format, template, folder)
    valid,      \* what ValidateHandler last reported: areInputsValid and the inline error
    pc,         \* position of ExecuteHandler.notify
    run,        \* what notify computes before the loop (objects, names, values, combos, snapshot ...)
    loop,       \* the loop's locals: combo_idx, obj_idx, step, orig_param_expr, fullpath, pending exception
    prog,       \* the progress dialog
    messages,   \* the message boxes shown, in order
    hist        \* history of the run, for stating the properties

driverVars == <<design, inputs, valid, pc, run, loop, prog, messages, hist>>

vars == <<fnVars, driverVars>>

NotRun == [ok |-> FALSE, err |-> "not run"]

\* Python values that reach the templater: a float or a str
PyFloat(m, e) == [t |-> "float", m |-> m, e |-> e]

PyStr(s) == [t |-> "str", s |-> s]

(***************************************************************************)
(* Bounds of the enumerated inputs.                                        *)
(***************************************************************************)
MaxLen == 4
MaxObjs == 2

(***************************************************************************)
(* Python str helpers.                                                     *)
(***************************************************************************)
IsSpace(c) == c \in {" ", "\t", "\n", "\r"}

RECURSIVE lstrip(_)
lstrip(s) ==
    IF s # <<>> /\ IsSpace(s[1]) THEN lstrip(Tail(s)) ELSE s

RECURSIVE rstrip(_)
rstrip(s) ==
    IF s # <<>> /\ IsSpace(s[Len(s)]) THEN rstrip(SubSeq(s, 1, Len(s) - 1)) ELSE s

strip(s) == rstrip(lstrip(s))

\* sub in s
Contains(s, sub) ==
    \E i \in 1..(Len(s) - Len(sub) + 1) : SubSeq(s, i, i + Len(sub) - 1) = sub

StartsWithAt(s, i, sub) ==
    /\ i + Len(sub) - 1 <= Len(s)
    /\ SubSeq(s, i, i + Len(sub) - 1) = sub

\* s.replace(old, new) for a non-empty old: left to right, non-overlapping
RECURSIVE ReplaceFrom(_, _, _, _)
ReplaceFrom(s, i, old, new) ==
    IF i > Len(s) THEN <<>>
    ELSE IF StartsWithAt(s, i, old)
         THEN new \o ReplaceFrom(s, i + Len(old), old, new)
         ELSE <<s[i]>> \o ReplaceFrom(s, i + 1, old, new)

Replace(s, old, new) == ReplaceFrom(s, 1, old, new)

\* sep.join(parts)
RECURSIVE Join(_, _)
Join(sep, parts) ==
    IF parts = <<>> THEN <<>>
    ELSE IF Len(parts) = 1 THEN parts[1]
    ELSE parts[1] \o sep \o Join(sep, Tail(parts))

\* raw.split(sep) for a one-character sep: always at least one part
RECURSIVE SplitFrom(_, _, _, _)
SplitFrom(s, i, sep, cur) ==
    IF i > Len(s) THEN <<cur>>
    ELSE IF s[i] = sep THEN <<cur>> \o SplitFrom(s, i + 1, sep, <<>>)
    ELSE SplitFrom(s, i + 1, sep, Append(cur, s[i]))

Split(s, sep) == SplitFrom(s, 1, sep, <<>>)

\* all strings over alphabet A of length at most n
StrsUpTo(A, n) == UNION {[1..k -> A] : k \in 0..n}

(***************************************************************************)
(* Python float.                                                           *)
(***************************************************************************)
DigitChars == <<"0", "1", "2", "3", "4", "5", "6", "7", "8", "9">>

IsDigit(c) == \E d \in 1..10 : DigitChars[d] = c

DigitVal(c) == (CHOOSE d \in 1..10 : DigitChars[d] = c) - 1

RECURSIVE DigitsVal(_)
DigitsVal(ds) ==
    IF ds = <<>> THEN 0
    ELSE 10 * DigitsVal(SubSeq(ds, 1, Len(ds) - 1)) + DigitVal(ds[Len(ds)])

RECURSIVE Normalise(_, _)
Normalise(m, e) ==
    IF e > 0 /\ m % 10 = 0 THEN Normalise(m \div 10, e - 1) ELSE PyFloat(m, e)

\* float(tok): surrounding whitespace, an optional sign, digits with at most
\* one point and at least one digit.  (Exponents, inf/nan and digit-group
\* underscores are accepted by Python too; the enumerated alphabets leave
\* their characters out.)
py_float(tok) ==
    LET t    == strip(tok)
        sgn  == t # <<>> /\ t[1] \in {"+", "-"}
        body == IF sgn THEN Tail(t) ELSE t
        dots == {i \in 1..Len(body) : body[i] = "."}
        good == /\ \A i \in 1..Len(body) : IsDigit(body[i]) \/ body[i] = "."
                /\ Cardinality(dots) <= 1
                /\ \E i \in 1..Len(body) : IsDigit(body[i])
    IN  IF ~good THEN [ok |-> FALSE, err |-> "ValueError"]
        ELSE LET p    == IF dots = {} THEN Len(body) + 1 ELSE CHOOSE i \in dots : TRUE
                 ip   == SubSeq(body, 1, p - 1)
                 fp   == SubSeq(body, p + 1, Len(body))
                 mag  == DigitsVal(ip \o fp)
                 m    == IF sgn /\ t[1] = "-" THEN 0 - mag ELSE mag
             IN  [ok |-> TRUE, val |-> Normalise(m, Len(fp))]

(***************************************************************************)
(* _parse_values_list                                                      *)
(***************************************************************************)
\* a parser that drops the tokens that are no numbers
RECURSIVE parse_values_skipping(_, _)
parse_values_skipping(toks, vals) ==
    IF toks = <<>> THEN [ok |-> TRUE, vals |-> vals]
    ELSE LET f == py_float(strip(toks[1])) IN
         parse_values_skipping(Tail(toks), IF f.ok THEN Append(vals, f.val) ELSE vals)

RECURSIVE parse_values_loop(_, _)
parse_values_loop(toks, vals) ==
    IF toks = <<>> THEN [ok |-> TRUE, vals |-> vals]
    ELSE LET tok == strip(toks[1]) IN
         IF tok = <<>> THEN parse_values_loop(Tail(toks), vals)
         ELSE LET f == py_float(tok) IN
              IF ~f.ok THEN [ok |-> FALSE, err |-> "ValueError"]
              ELSE parse_values_loop(Tail(toks), Append(vals, f.val))

\* if not vals: raise ValueError
raise_if_no_vals(r) ==
    IF r.ok /\ r.vals = <<>> THEN [ok |-> FALSE, err |-> "ValueError"] ELSE r

_parse_values_list(raw) ==
    IF raw = <<>> THEN [ok |-> FALSE, err |-> "ValueError"]
    ELSE raise_if_no_vals(parse_values_loop(Split(raw, ";"), <<>>))

(***************************************************************************)
(* _parse_text_values_list                                                 *)
(***************************************************************************)
\* every quote toggles, escaped or not
quote_toggles_always(raw, i) == raw[i] = "'"

\* line 505: a quote toggles unless the character before it is a backslash
quote_toggles(raw, i) == raw[i] = "'" /\ (i = 1 \/ raw[i - 1] # "\\")

\* the while loop of lines 503-513
RECURSIVE text_split_loop(_, _, _, _, _)
text_split_loop(raw, i, parts, current_part, in_quotes) ==
    IF i > Len(raw) THEN [parts |-> parts, current_part |-> current_part]
    ELSE IF quote_toggles(raw, i)
         THEN text_split_loop(raw, i + 1, parts, Append(current_part, raw[i]), ~in_quotes)
    ELSE IF raw[i] = ";" /\ ~in_quotes
         THEN text_split_loop(raw, i + 1, Append(parts, current_part), <<>>, in_quotes)
    ELSE text_split_loop(raw, i + 1, parts, Append(current_part, raw[i]), in_quotes)

\* lines 515-516: if current_part: parts.append(current_part)
append_last_part(r) ==
    IF r.current_part # <<>> THEN Append(r.parts, r.current_part) ELSE r.parts

text_parts(raw) == append_last_part(text_split_loop(raw, 1, <<>>, <<>>, FALSE))

\* _TEXT_LITERAL_RE = ^\s*'([^']*)'\s*$ : the match and its group 1
_TEXT_LITERAL_RE(tok) ==
    LET qs == {i \in 1..Len(tok) : tok[i] = "'"} IN
    IF /\ Cardinality(qs) = 2
       /\ \A i \in 1..Len(tok) : i \in qs \/ IsSpace(tok[i])
                                  \/ ((\E a \in qs : a < i) /\ (\E b \in qs : b > i))
    THEN LET first == CHOOSE a \in qs : \A b \in qs : a <= b
             last  == CHOOSE b \in qs : \A a \in qs : a <= b
         IN  [ok |-> TRUE, group1 |-> SubSeq(tok, first + 1, last - 1)]
    ELSE [ok |-> FALSE]

RECURSIVE parse_text_loop(_, _)
parse_text_loop(parts, vals) ==
    IF parts = <<>> THEN [ok |-> TRUE, vals |-> vals]
    ELSE LET tok == strip(parts[1]) IN
         IF tok = <<>> THEN parse_text_loop(Tail(parts), vals)
         ELSE LET m == _TEXT_LITERAL_RE(tok) IN
              IF ~m.ok THEN [ok |-> FALSE, err |-> "ValueError"]
              ELSE parse_text_loop(Tail(parts), Append(vals, PyStr(m.group1)))

_parse_text_values_list(raw) ==
    IF raw = <<>> THEN [ok |-> FALSE, err |-> "ValueError"]
    ELSE raise_if_no_vals(parse_text_loop(text_parts(raw), <<>>))

(***************************************************************************)
(* str(float): the shortest decimal form, always with a fractional part    *)
(* (12.0, 5.5).  The values the model reaches stay inside the range that   *)
(* Python prints without an exponent.                                      *)
(***************************************************************************)
RECURSIVE NatDigits(_)
NatDigits(n) ==
    IF n < 10 THEN <<DigitChars[n + 1]>>
    ELSE Append(NatDigits(n \div 10), DigitChars[(n % 10) + 1])

RECURSIVE Pow10(_)
Pow10(k) == IF k = 0 THEN 1 ELSE 10 * Pow10(k - 1)

RECURSIVE ZeroPad(_, _)
ZeroPad(ds, width) == IF Len(ds) >= width THEN ds ELSE ZeroPad(<<"0">> \o ds, width)

float_str(f) ==
    LET mag  == IF f.m < 0 THEN 0 - f.m ELSE f.m
        ip   == NatDigits(mag \div Pow10(f.e))
        fp   == IF f.e = 0 THEN <<"0">> ELSE ZeroPad(NatDigits(mag % Pow10(f.e)), f.e)
    IN  (IF f.m < 0 THEN <<"-">> ELSE <<>>) \o ip \o <<".">> \o fp

\* str(v), f'{v}'
py_str(v) == IF v.t = "float" THEN float_str(v) ELSE v.s

(***************************************************************************)
(* Combination engine: itertools.product over the ordered value lists      *)
(***************************************************************************)
\* the new pool varies slowest
RECURSIVE ExtendPoolMajor(_, _)
ExtendPoolMajor(result, pool) ==
    IF pool = <<>> THEN <<>>
    ELSE [j \in 1..Len(result) |-> Append(result[j], pool[1])] \o ExtendPoolMajor(result, Tail(pool))

\* [x + (y,) for x in result for y in pool], result-major
RECURSIVE ExtendEach(_, _)
ExtendEach(result, pool) ==
    IF result = <<>> THEN <<>>
    ELSE [j \in 1..Len(pool) |-> Append(result[1], pool[j])] \o ExtendEach(Tail(result), pool)

RECURSIVE product_loop(_, _)
product_loop(pools, result) ==
    IF pools = <<>> THEN result
    ELSE product_loop(Tail(pools), ExtendEach(result, pools[1]))

itertools_product(pools) == product_loop(pools, << <<>> >>)

\* param_values is the dict {name: list}, a function on the selected names
all_combos(sel_param_names, param_values) ==
    itertools_product([i \in 1..Len(sel_param_names) |-> param_values[sel_param_names[i]]])

(***************************************************************************)
(* Filename templater                                                      *)
(***************************************************************************)
Placeholder(pname) == <<"{">> \o pname \o <<"}">>

NamePlaceholder == <<"{", "n", "a", "m", "e", "}">>

IllegalChars == {"\\", "/", ":", "*", "?", "\"", "<", ">", "|", "\n", "\r", "\t"}

\* only the first missing placeholder
RECURSIVE first_missing_placeholder(_, _)
first_missing_placeholder(template, names) ==
    IF names = <<>> THEN <<>>
    ELSE IF Contains(template, Placeholder(names[1]))
         THEN first_missing_placeholder(template, Tail(names))
         ELSE <<names[1]>>

\* [p for p in selected_param_names if '{p}' not in template]
RECURSIVE missing_placeholders(_, _)
missing_placeholders(template, names) ==
    IF names = <<>> THEN <<>>
    ELSE (IF Contains(template, Placeholder(names[1])) THEN <<>> ELSE <<names[1]>>)
         \o missing_placeholders(template, Tail(names))

\* the message is the fixed text followed by the joined placeholder list
\* lines 578-584
missing_result(missing) ==
    IF missing # <<>>
    THEN [ok |-> FALSE, msg |-> "Filename template is missing placeholders: ",
          list |-> Join(<<",", " ">>, [i \in 1..Len(missing) |-> Placeholder(missing[i])])]
    ELSE [ok |-> TRUE, msg |-> "", list |-> <<>>]

_validate_filename_template(template, selected_param_names, fmt_ext) ==
    IF template = <<>>
    THEN [ok |-> FALSE, msg |-> "Filename template is empty.", list |-> <<>>]
    ELSE IF ~Contains(template, NamePlaceholder)
    THEN [ok |-> FALSE, msg |-> "Filename template must include {name}.", list |-> <<>>]
    ELSE missing_result(missing_placeholders(template, selected_param_names))

\* ''.join(c for c in s if c not in ILLEGAL).strip(); iterating a float raises
_sanitize_filename_component(v) ==
    IF v.t # "str" THEN [ok |-> FALSE, err |-> "TypeError"]
    ELSE [ok |-> TRUE, val |-> strip(SelectSeq(v.s, LAMBDA c : c \notin IllegalChars))]

\* param_values_map is the dict as its item list <<name, value>>, in insertion order
RECURSIVE build_filename_loop(_, _)
RECURSIVE build_filename_replace(_, _, _)
build_filename_loop(out, items) ==
    IF items = <<>> THEN [ok |-> TRUE, val |-> out]
    ELSE build_filename_replace(out, items, _sanitize_filename_component(items[1][2]))

\* line 594, or the TypeError of the sanitizer propagates
build_filename_replace(out, items, san) ==
    IF ~san.ok THEN san
    ELSE build_filename_loop(Replace(out, Placeholder(items[1][1]), san.val), Tail(items))

_build_filename(template, obj_name, param_values_map) ==
    build_filename_loop(
        Replace(template, NamePlaceholder, _sanitize_filename_component(PyStr(obj_name)).val),
        param_values_map)

(***************************************************************************)
(* The host document and the dialog.                                       *)
(*                                                                         *)
(* User parameters in UI order: w is numeric with unit mm, h and d are     *)
(* text parameters.  The root component holds bodies B1, B2 and            *)
(* occurrences O1, O2; _item_registry lists the bodies, then the           *)
(* occurrences (_createObjectsTable).                                      *)
(***************************************************************************)
W == <<"w">>
H == <<"h">>
D == <<"d">>

ParamNames == {W, H, D}

_param_order == <<W, H, D>>

\* up.valueType == 1 for a text parameter
valueType(p) == IF p = W THEN 0 ELSE 1

unit(p) == IF p = W THEN <<"m", "m">> ELSE <<>>

InitialExpression ==
    [p \in ParamNames |->
        IF p = W THEN <<"1", "0", " ", "m", "m">> ELSE IF p = H THEN <<"'", "x", "'">> ELSE <<"'", "y", "'">>]

Bodies == {"B1", "B2"}
Occs == {"O1", "O2"}

_item_registry ==
    << [kind |-> "body", ref |-> "B1"], [kind |-> "body", ref |-> "B2"],
       [kind |-> "component", ref |-> "O1"], [kind |-> "component", ref |-> "O2"] >>

\* b.name / occ.component.name
EntityName(ref) ==
    CASE ref = "B1" -> <<"A">>
      [] ref = "B2" -> <<"P", " ", "A">>
      [] ref = "O1" -> <<"C">>
      [] ref = "O2" -> <<"D", "/", "2">>

Formats == {"STEP", "STL", "3MF", "OBJ"}

_EXT_MAP ==
    [f \in Formats |->
        CASE f = "STEP" -> <<"s", "t", "e", "p">>
          [] f = "STL"  -> <<"s", "t", "l">>
          [] f = "3MF"  -> <<"3", "m", "f">>
          [] f = "OBJ"  -> <<"o", "b", "j">>]

\* the output folders of the modelled file system
Home == <<"/", "h">>
OutDir == <<"/", "o">>
ExistingDirs == {OutDir, Home, <<"/">>, <<".">>, <<"/", "r">>}
WritableDirs == {OutDir, Home, <<".">>}

os_path_isdir(p) == p \in ExistingDirs
os_access_W_OK(p) == p \in WritableDirs

(***************************************************************************)
(* os.path helpers (posixpath)                                             *)
(***************************************************************************)
RECURSIVE lstrip_chars(_, _)
lstrip_chars(s, cs) ==
    IF s # <<>> /\ s[1] \in cs THEN lstrip_chars(Tail(s), cs) ELSE s

RECURSIVE rstrip_chars(_, _)
rstrip_chars(s, cs) ==
    IF s # <<>> /\ s[Len(s)] \in cs THEN rstrip_chars(SubSeq(s, 1, Len(s) - 1), cs) ELSE s

strip_chars(s, cs) == rstrip_chars(lstrip_chars(s, cs), cs)

\* only the current user's home is known; ~name is left as it is
os_path_expanduser(path) ==
    IF path = <<>> \/ path[1] # "~" THEN path
    ELSE IF Len(path) = 1 \/ path[2] = "/"
         THEN LET r == rstrip_chars(Home, {"/"}) \o Tail(path)
              IN  IF r = <<>> THEN <<"/">> ELSE r
         ELSE path

RECURSIVE normpath_loop(_, _, _)
normpath_loop(comps, new_comps, initial_slashes) ==
    IF comps = <<>> THEN new_comps
    ELSE LET comp == comps[1] IN
         IF comp = <<>> \/ comp = <<".">>
         THEN normpath_loop(Tail(comps), new_comps, initial_slashes)
         ELSE IF \/ comp # <<".", ".">>
                 \/ (initial_slashes = 0 /\ new_comps = <<>>)
                 \/ (new_comps # <<>> /\ new_comps[Len(new_comps)] = <<".", ".">>)
         THEN normpath_loop(Tail(comps), Append(new_comps, comp), initial_slashes)
         ELSE IF new_comps # <<>>
         THEN normpath_loop(Tail(comps), SubSeq(new_comps, 1, Len(new_comps) - 1), initial_slashes)
         ELSE normpath_loop(Tail(comps), new_comps, initial_slashes)

os_path_normpath(path) ==
    IF path = <<>> THEN <<".">>
    ELSE LET initial_slashes ==
                 IF path[1] # "/" THEN 0
                 ELSE IF Len(path) >= 2 /\ path[2] = "/" /\ ~(Len(path) >= 3 /\ path[3] = "/")
                      THEN 2 ELSE 1
             comps == normpath_loop(Split(path, "/"), <<>>, initial_slashes)
             r     == [i \in 1..initial_slashes |-> "/"] \o Join(<<"/">>, comps)
         IN  IF r = <<>> THEN <<".">> ELSE r

os_path_join(a, b) ==
    IF b # <<>> /\ b[1] = "/" THEN b
    ELSE IF a = <<>> \/ a[Len(a)] = "/" THEN a \o b
    ELSE a \o <<"/">> \o b

_normalize_path(p) ==
    os_path_normpath(os_path_expanduser(strip_chars(strip_chars(strip(p), {"\""}), {"'"})))

(***************************************************************************)
(* Reading the dialog                                                      *)
(***************************************************************************)
\* the checked rows of _item_registry, in registry order, with display names
_get_selected_objects(ins) ==
    LET sel == SelectSeq(_item_registry, LAMBDA it : it.ref \in ins.chk_items)
    IN  [i \in 1..Len(sel) |-> [kind |-> sel[i].kind, ref |-> sel[i].ref, name |-> EntityName(sel[i].ref)]]

\* lines 559-565: the text field of a checked row, parsed by the parameter's type
parse_field(pname, txt) ==
    IF valueType(pname) = 1 THEN _parse_text_values_list(txt) ELSE _parse_values_list(txt)

RECURSIVE selected_params_loop(_, _, _, _)
RECURSIVE selected_params_add(_, _, _, _, _)
selected_params_loop(ins, order, ordered_names, values_map) ==
    IF order = <<>> THEN [ok |-> TRUE, names |-> ordered_names, values |-> values_map]
    ELSE IF order[1] \notin ins.chk_params
    THEN selected_params_loop(ins, Tail(order), ordered_names, values_map)
    ELSE selected_params_add(ins, order, ordered_names, values_map,
             parse_field(order[1], strip(ins.txt_values[order[1]])))

\* lines 567-568, or the ValueError of the parser propagates
selected_params_add(ins, order, ordered_names, values_map, vals) ==
    IF ~vals.ok THEN [ok |-> FALSE, err |-> "ValueError"]
    ELSE selected_params_loop(ins, Tail(order), Append(ordered_names, order[1]),
             [p \in DOMAIN values_map \cup {order[1]} |->
                 IF p = order[1] THEN vals.vals ELSE values_map[p]])

_get_selected_params_and_values(ins) == selected_params_loop(ins, _param_order, <<>>, <<>>)

\* the template the dialog proposes for the checked parameters and the format
_updateFilenameTemplate(chk_params, fmt_name) ==
    LET sel      == SelectSeq(_param_order, LAMBDA p : p \in chk_params)
        selected == [i \in 1..Len(sel) |-> Placeholder(sel[i])]
        middle   == IF selected # <<>> THEN <<"_">> \o Join(<<"_">>, selected) ELSE <<>>
    IN  NamePlaceholder \o middle \o <<".">> \o _EXT_MAP[fmt_name]

Invalid(msg) == [ok |-> FALSE, msg |-> msg, list |-> <<>>]

\* a check of the output folder that accepts every folder
accept_any_dir(out_dir) == [ok |-> TRUE, msg |-> "", list |-> <<>>]

\* lines 626-636
validate_out_dir(out_dir) ==
    IF out_dir = <<>> \/ ~os_path_isdir(out_dir) THEN Invalid("Output folder must exist.")
    ELSE IF ~os_access_W_OK(out_dir) THEN Invalid("Output folder is not writable.")
    ELSE [ok |-> TRUE, msg |-> "", list |-> <<>>]

\* lines 615-624, then the output folder
validate_template_and_dir(ins, tv) ==
    IF ~tv.ok THEN tv ELSE validate_out_dir(_normalize_path(ins.out_dir))

\* lines 607-613, then the rest
validate_params(ins, sp) ==
    IF ~sp.ok
    THEN Invalid("All selected parameters must have semicolon-separated constant values.")
    ELSE IF sp.names = <<>> THEN Invalid("Select at least one parameter.")
    ELSE validate_template_and_dir(ins,
             _validate_filename_template(strip(ins.template), sp.names, _EXT_MAP[ins.fmt_name]))

_validate_all(ins) ==
    IF _get_selected_objects(ins) = <<>> THEN Invalid("Select at least one body or component.")
    ELSE validate_params(ins, _get_selected_params_and_values(ins))

(***************************************************************************)
(* Operations on the document                                              *)
(***************************************************************************)
\* the string written for one value: textValue = f"'{pval.strip()}'" for a
\* text parameter, expression = f'{pval} {unit}'.strip() for a numeric one;
\* the design keeps the written string as the parameter's expression
written_expression(pname, pval) ==
    IF valueType(pname) = 1 THEN <<"'">> \o strip(pval.s) \o <<"'">>
    ELSE strip(py_str(pval) \o <<" ">> \o strip(unit(pname)))

\* a cache that keeps the expression found at the latest write
cache_latest(originals_cache, pname, expr) ==
    [p \in DOMAIN originals_cache \cup {pname} |->
        IF p = pname THEN expr ELSE originals_cache[p]]

\* the cache keeps the expression found at the first write of a parameter
cache_original(originals_cache, pname, expr) ==
    IF pname \in DOMAIN originals_cache THEN originals_cache
    ELSE [p \in DOMAIN originals_cache \cup {pname} |->
             IF p = pname THEN expr ELSE originals_cache[p]]

\* fail_at = i > 0: the host rejects the i-th assignment (it raises); 0: none does
RECURSIVE set_user_params_loop(_, _, _, _, _, _)
set_user_params_loop(d, values_tuple, ordered_names, originals_cache, i, fail_at) ==
    IF i > Len(ordered_names) THEN [ok |-> TRUE, design |-> d, cache |-> originals_cache]
    ELSE LET pname == ordered_names[i]
             cache == cache_original(originals_cache, pname, d.expression[pname])
         IN  IF i = fail_at THEN [ok |-> FALSE, design |-> d, cache |-> cache]
             ELSE set_user_params_loop(
                      [d EXCEPT !.expression[pname] = written_expression(pname, values_tuple[i]),
                                !.computes_since_write = 0],
                      values_tuple, ordered_names, cache, i + 1, fail_at)

_set_user_params(d, values_tuple, ordered_names, originals_cache, fail_at) ==
    set_user_params_loop(d, values_tuple, ordered_names, originals_cache, 1, fail_at)

_restore_user_params(d, originals_cache) ==
    [d EXCEPT !.expression = [p \in ParamNames |->
                                 IF p \in DOMAIN originals_cache THEN originals_cache[p] ELSE @[p]],
              !.computes_since_write = IF DOMAIN originals_cache = {} THEN @ ELSE 0]

\* design.computeAll(); a failure of the recompute is swallowed
_compute(d) == [d EXCEPT !.computes_since_write = @ + 1]

_snapshot_visibility(d) == [body_vis |-> d.bodyVis, occ_vis |-> d.occVis]

\* a restore that leaves the flags as they are
visibility_left(d, body_vis, occ_vis) == d

_restore_visibility(d, body_vis, occ_vis) ==
    [d EXCEPT !.bodyVis = [b \in Bodies |-> IF b \in DOMAIN body_vis THEN body_vis[b] ELSE TRUE],
              !.occVis  = [o \in Occs |-> IF o \in DOMAIN occ_vis THEN occ_vis[o] ELSE TRUE]]

\* root bodies have no assemblyContext
_isolate_for_step(d, kind, ref) ==
    LET hidden == [d EXCEPT !.occVis = [o \in Occs |-> FALSE]] IN
    IF kind = "component" THEN [hidden EXCEPT !.occVis[ref] = TRUE]
    ELSE [hidden EXCEPT !.bodyVis = [b \in Bodies |-> b = ref]]

\* a finally block that leaves the visibility flags alone
finally_block_without_visibility(d, orig_param_expr, orig_body_vis, orig_occ_vis) ==
    _compute(_restore_user_params(d, orig_param_expr))

\* a finally block that recomputes before it restores
finally_block_compute_first(d, orig_param_expr, orig_body_vis, orig_occ_vis) ==
    _restore_visibility(_restore_user_params(_compute(d), orig_param_expr), orig_body_vis, orig_occ_vis)

\* the finally block's work on the document, lines 210-212
finally_block(d, orig_param_expr, orig_body_vis, orig_occ_vis) ==
    _compute(_restore_visibility(_restore_user_params(d, orig_param_expr), orig_body_vis, orig_occ_vis))

_progress_start(maximum) ==
    [shown |-> TRUE, progressValue |-> 0, maximumValue |-> maximum, wasCancelled |-> FALSE]

\* an update that leaves the counter where it was
_progress_update_stale(dlg, current) == dlg

_progress_update(dlg, current) == [dlg EXCEPT !.progressValue = current]

_progress_end(dlg) == [dlg EXCEPT !.shown = FALSE]

\* a loop that never looks at the cancellation flag
never_cancelled(dlg) == FALSE

\* a loop that ignores the export call's result
export_result_ignored(ok) == FALSE

\* line 187: if prog.wasCancelled
was_cancelled(dlg) == dlg.wasCancelled

\* line 201: if not ok
export_failed(ok) == ~ok

\* line 190: fmt_name.upper() == 'STEP'
is_step(fmt_name) == fmt_name = "STEP"

\* dict(zip(sel_param_names, combo)) as its item list
pv_map(sel_param_names, combo) ==
    [i \in 1..Len(sel_param_names) |-> <<sel_param_names[i], combo[i]>>]

(***************************************************************************)
(* The dialog's inputs                                                     *)
(***************************************************************************)
Items == Bodies \cup Occs

ItemSelections == {sel \in SUBSET Items : Cardinality(sel) \in 1..MaxObjs}

TypedText(p) == IF p = W THEN <<"1", ";", " ", "2">> ELSE IF p = H THEN <<"'", "a", "'", ";", "'", "b", "'">> ELSE <<"'", "c", "'">>

DefaultTxt(chk) == [p \in ParamNames |-> IF p \in chk THEN TypedText(p) ELSE <<>>]

MainInputs ==
    {[chk_items |-> it, chk_params |-> cp, txt_values |-> DefaultTxt(cp), fmt_name |-> f,
      template |-> _updateFilenameTemplate(cp, f), out_dir |-> OutDir] :
        it \in ItemSelections, cp \in (SUBSET ParamNames) \ {{}}, f \in Formats}

BaseInputs ==
    [chk_items |-> {"B1"}, chk_params |-> {H}, txt_values |-> DefaultTxt({H}), fmt_name |-> "STL",
     template |-> _updateFilenameTemplate({H}, "STL"), out_dir |-> OutDir]

\* dialogs in which several fields are wrong at once
FailureInputs ==
    {[BaseInputs EXCEPT !.chk_items = it, !.chk_params = cp, !.txt_values[H] = tx,
                        !.template = t, !.out_dir = o] :
        it \in {{}, {"B1"}}, cp \in {{}, {H}}, tx \in {<<"x">>, TypedText(H)},
        t \in {<<>>, NamePlaceholder, BaseInputs.template},
        o \in {<<"/", "x">>, <<"/", "r">>, OutDir}}

EdgeInputs ==
    {[BaseInputs EXCEPT !.chk_items = {}], [BaseInputs EXCEPT !.chk_params = {}],
     [BaseInputs EXCEPT !.txt_values[H] = <<"x">>],
     [BaseInputs EXCEPT !.txt_values[H] = <<"'", " ", "a", "'">>]}
    \cup {[BaseInputs EXCEPT !.template = t] : t \in {<<>>, NamePlaceholder, Placeholder(H)}}
    \cup {[BaseInputs EXCEPT !.out_dir = o] :
            o \in {<<>>, <<"/", "x">>, <<"/", "r">>, <<"'", "~", "'">>, <<" ", "/", "o", "/", " ">>,
                   <<"/", "o", "/", ".", ".", "/", "o">>}}
    \cup FailureInputs

AllVisible == [bodyVis |-> [b \in Bodies |-> TRUE], occVis |-> [o \in Occs |-> TRUE]]

NoExc == [set |-> FALSE]
NoRun == [started |-> FALSE]
NoLoop == [combo_idx |-> 0, obj_idx |-> 0, step |-> 0, orig_param_expr |-> <<>>,
           fullpath |-> <<>>, exc |-> NoExc]
NoProg == [shown |-> FALSE, progressValue |-> 0, maximumValue |-> 0, wasCancelled |-> FALSE]
NoHist ==
    [pre |-> [set |-> FALSE], written |-> {}, last_set_combo |-> 0, cancel_checks |-> 0,
     cancel_seen |-> [set |-> FALSE], failed |-> [set |-> FALSE], exports |-> <<>>,
     export_returns |-> 0, n_restore |-> 0, compute_failed |-> FALSE]

InitDesign(bv, ov) ==
    [expression |-> InitialExpression, bodyVis |-> bv, occVis |-> ov, computes_since_write |-> 0]

DriverStart ==
    /\ valid = [checked |-> FALSE]
    /\ pc = "idle"
    /\ run = NoRun
    /\ loop = NoLoop
    /\ prog = NoProg
    /\ messages = <<>>
    /\ hist = NoHist

\* the dialog is not part of a check of a pure function
DriverIdle ==
    /\ design = InitDesign(AllVisible.bodyVis, AllVisible.occVis)
    /\ inputs = BaseInputs
    /\ DriverStart

Init ==
    /\ fn_in = <<>>
    /\ fn_out = NotRun
    /\ fn_pc = "off"
    /\ \/ /\ inputs \in MainInputs
          /\ design \in {InitDesign(bv, ov) : bv \in [Bodies -> BOOLEAN], ov \in [Occs -> BOOLEAN]}
       \/ /\ inputs \in EdgeInputs
          /\ design = InitDesign(AllVisible.bodyVis, AllVisible.occVis)
    /\ DriverStart

(***************************************************************************)
(* ValidateHandler.notify                                                  *)
(***************************************************************************)
\* lines 125-133: areInputsValid and the inline error text box
validation_report(r) ==
    [checked |-> TRUE, areInputsValid |-> r.ok,
     inline_error |-> [text |-> r.msg, list |-> r.list], isVisible |-> ~r.ok]

Validate ==
    /\ pc = "idle"
    /\ ~valid.checked
    /\ valid' = validation_report(_validate_all(inputs))
    /\ UNCHANGED <<fnVars, design, inputs, pc, run, loop, prog, messages, hist>>

(***************************************************************************)
(* ExecuteHandler.notify, in steps.  The host calls it only when the last  *)
(* validation reported valid inputs.                                       *)
(***************************************************************************)
\* lines 148-165: the locals of notify before the loop
run_combos(r, combos) ==
    [r EXCEPT !.all_combos = combos, !.total = Len(combos) * Len(r.objects)]

run_locals(ins, objects, sp, snap) ==
    run_combos([started |-> TRUE, objects |-> objects, sel_param_names |-> sp.names,
                param_values |-> sp.values, fmt_name |-> ins.fmt_name,
                template |-> strip(ins.template), out_dir |-> strip(ins.out_dir),
                orig_body_vis |-> snap.body_vis, orig_occ_vis |-> snap.occ_vis,
                all_combos |-> <<>>, total |-> 0],
               all_combos(sp.names, sp.values))

\* lines 146-167: read the dialog, snapshot, materialise, open the progress dialog
Execute ==
    /\ pc = "idle"
    /\ valid.checked /\ valid.areInputsValid
    /\ run' = run_locals(inputs, _get_selected_objects(inputs),
                         _get_selected_params_and_values(inputs), _snapshot_visibility(design))
    /\ prog' = _progress_start(run'.total)
    /\ loop' = NoLoop
    /\ pc' = "combo"
    /\ hist' = [hist EXCEPT !.pre = [set |-> TRUE, design |-> design]]
    /\ UNCHANGED <<fnVars, design, inputs, valid, messages>>

\* lines 170-176: the head of the outer loop, _set_user_params and _compute
NextCombo ==
    /\ pc = "combo"
    /\ loop.combo_idx < Len(run.all_combos)
    /\ \E fail_at \in 0..Len(run.sel_param_names), compute_ok \in BOOLEAN :
         LET combo == run.all_combos[loop.combo_idx + 1]
             r     == _set_user_params(design, combo, run.sel_param_names,
                                       loop.orig_param_expr, fail_at)
             n     == IF fail_at = 0 THEN Len(run.sel_param_names) ELSE fail_at - 1
         IN  /\ hist' = [hist EXCEPT
                           !.written = @ \cup {run.sel_param_names[i] : i \in 1..n},
                           !.last_set_combo = loop.combo_idx + 1,
                           !.compute_failed = @ \/ (r.ok /\ ~compute_ok)]
             /\ IF r.ok
                THEN /\ design' = _compute(r.design)
                     /\ loop' = [loop EXCEPT !.combo_idx = @ + 1, !.obj_idx = 0,
                                             !.orig_param_expr = r.cache]
                     /\ pc' = "object"
                ELSE /\ design' = r.design
                     /\ loop' = [loop EXCEPT !.combo_idx = @ + 1, !.orig_param_expr = r.cache,
                                             !.exc = [set |-> TRUE, type |-> "HostError", path |-> <<>>]]
                     /\ pc' = "finally"
    /\ UNCHANGED <<fnVars, inputs, valid, run, prog, messages>>

\* line 204: the loop is exhausted
LoopDone ==
    /\ pc = "combo"
    /\ loop.combo_idx = Len(run.all_combos)
    /\ messages' = Append(messages, [box |-> "Success: exports complete."])
    /\ pc' = "finally"
    /\ UNCHANGED <<fnVars, design, inputs, valid, run, loop, prog, hist>>

\* lines 179-188 and 206-207: filename, progress update, cancellation check
ProgressStep ==
    /\ pc = "object"
    /\ loop.obj_idx < Len(run.objects)
    /\ LET obj   == run.objects[loop.obj_idx + 1]
           combo == run.all_combos[loop.combo_idx]
           fname == _build_filename(run.template, obj.name, pv_map(run.sel_param_names, combo))
       IN  IF ~fname.ok
           THEN /\ loop' = [loop EXCEPT !.obj_idx = @ + 1,
                               !.exc = [set |-> TRUE, type |-> fname.err, path |-> <<>>]]
                /\ pc' = "finally"
                /\ UNCHANGED <<prog, messages, hist>>
           ELSE /\ loop' = [loop EXCEPT !.obj_idx = @ + 1, !.step = @ + 1,
                               !.fullpath = os_path_join(run.out_dir, fname.val)]
                /\ prog' = _progress_update(prog, loop.step + 1)
                /\ hist' = [hist EXCEPT
                              !.cancel_checks = @ + 1,
                              !.cancel_seen =
                                  IF prog.wasCancelled
                                  THEN [set |-> TRUE, exports |-> Len(hist.exports),
                                        combo |-> hist.last_set_combo]
                                  ELSE @]
                /\ IF was_cancelled(prog')
                   THEN /\ messages' = Append(messages, [box |-> "Export cancelled."])
                        /\ pc' = "finally"
                   ELSE /\ pc' = "export"
                        /\ UNCHANGED messages
    /\ UNCHANGED <<fnVars, design, inputs, valid, run>>

\* lines 190-199: isolation for STEP, then the export call begins
ExportCall ==
    /\ pc = "export"
    /\ LET obj == run.objects[loop.obj_idx] IN
       /\ design' = IF is_step(run.fmt_name) THEN _isolate_for_step(design, obj.kind, obj.ref)
                    ELSE design
       /\ hist' = [hist EXCEPT !.exports = Append(@,
                      [combo |-> loop.combo_idx, obj |-> loop.obj_idx, ref |-> obj.ref,
                       path |-> loop.fullpath])]
    /\ pc' = "exporting"
    /\ UNCHANGED <<fnVars, inputs, valid, run, loop, prog, messages>>

\* the export call returns True or False, or raises; lines 196 and 201-202
ExportReturn ==
    /\ pc = "exporting"
    /\ \E outcome \in {"ok", "fail", "raise"} :
         IF outcome = "raise"
         THEN /\ loop' = [loop EXCEPT !.exc = [set |-> TRUE, type |-> "HostError", path |-> <<>>]]
              /\ pc' = "finally"
              /\ hist' = [hist EXCEPT !.export_returns = @ + 1]
              /\ UNCHANGED design
         ELSE /\ design' = IF is_step(run.fmt_name)
                           THEN _restore_visibility(design, run.orig_body_vis, run.orig_occ_vis)
                           ELSE design
              /\ hist' = [hist EXCEPT
                            !.export_returns = @ + 1,
                            !.failed = IF outcome = "fail"
                                       THEN [set |-> TRUE, combo |-> loop.combo_idx,
                                             obj |-> loop.obj_idx, path |-> loop.fullpath,
                                             exports |-> Len(hist.exports)]
                                       ELSE @]
              /\ IF export_failed(outcome = "ok")
                 THEN /\ loop' = [loop EXCEPT !.exc = [set |-> TRUE, type |-> "RuntimeError",
                                                       path |-> loop.fullpath]]
                      /\ pc' = "finally"
                 ELSE /\ pc' = IF loop.obj_idx < Len(run.objects) THEN "object" ELSE "combo"
                      /\ UNCHANGED loop
    /\ UNCHANGED <<fnVars, inputs, valid, run, prog, messages>>

\* lines 208-217: the finally block, then the outer handler's message box
Finally ==
    /\ pc = "finally"
    /\ prog' = _progress_end(prog)
    /\ design' = finally_block(design, loop.orig_param_expr, run.orig_body_vis, run.orig_occ_vis)
    /\ hist' = [hist EXCEPT !.n_restore = @ + 1]
    /\ messages' = IF loop.exc.set
                   THEN Append(messages, [box |-> "Execute failed:", exc |-> loop.exc])
                   ELSE messages
    /\ pc' = "done"
    /\ UNCHANGED <<fnVars, inputs, valid, run, loop>>

\* the operator presses Cancel on the progress dialog
UserCancel ==
    /\ pc \in {"combo", "object", "export", "exporting"}
    /\ prog.shown /\ ~prog.wasCancelled
    /\ prog' = [prog EXCEPT !.wasCancelled = TRUE]
    /\ UNCHANGED <<fnVars, design, inputs, valid, pc, run, loop, messages, hist>>

Next ==
    \/ Validate
    \/ Execute
    \/ NextCombo
    \/ LoopDone
    \/ ProgressStep
    \/ ExportCall
    \/ ExportReturn
    \/ Finally
    \/ UserCancel

Spec == Init /\ [][Next]_vars

(***************************************************************************)
(* The pure functions, each called once on an enumerated input.            *)
(***************************************************************************)
MaxPieces == 3
MaxVals == 2

NumAlphabet == {"1", "0", ".", ";", " ", "-", "a"}

NumExamples == {<<"1", ";", " ", "5", ".", "5", ";", " ", "1", "2">>, <<"a", ";", "b">>, <<"1", ";", "x">>}

TextAlphabet == {"'", ";", "\\", " ", "a"}

TextExamples == {<<"'", "a", "'", ";", " ", "'", "b", ";", "c", "'", ";", " ", "'", "d", "'">>}

\* non-empty lists of distinct parameter names: the checked rows, in any UI order
NameLists ==
    {nl \in UNION {[1..k -> ParamNames] : k \in 1..3} :
        \A i, j \in 1..Len(nl) : i # j => nl[i] # nl[j]}

ValLists == UNION {[1..k -> {1, 2}] : k \in 1..MaxVals}

ProductExample ==
    [names |-> <<W, H>>, values |-> [p \in ParamNames |-> IF p = W THEN <<10, 20>> ELSE <<1, 2, 3>>]]

ProductInputs ==
    {[names |-> nl, values |-> pv] : nl \in NameLists, pv \in [ParamNames -> ValLists]}
        \cup {ProductExample}

Pieces == {NamePlaceholder, Placeholder(W), Placeholder(H), <<"{">>, <<"w">>, <<".", "o", "b", "j">>}

RECURSIVE Concat(_)
Concat(ps) == IF ps = <<>> THEN <<>> ELSE ps[1] \o Concat(Tail(ps))

Templates == {Concat(ps) : ps \in UNION {[1..k -> Pieces] : k \in 0..MaxPieces}}

Exts == {_EXT_MAP[f] : f \in Formats}

TemplateInputs ==
    {[template |-> t, names |-> nl, ext |-> x] :
        t \in Templates, nl \in {<<>>, <<W>>, <<H>>, <<W, H>>}, x \in Exts}

BuildPieces == {NamePlaceholder, Placeholder(W), Placeholder(H), <<"_">>}

BuildTemplates == {Concat(ps) : ps \in UNION {[1..k -> BuildPieces] : k \in 0..MaxPieces}}

SampleValues ==
    {PyFloat(12, 0), PyFloat(55, 1), PyStr(<<"x">>), PyStr(<<"a", "/", "b", " ">>), PyStr(Placeholder(H))}

ObjNames == {<<"A">>, <<"P", " ", "A">>, <<" ", "a", ":", "b">>, Placeholder(W)}

ValueMaps ==
    {<<>>} \cup {<< <<W, v>> >> : v \in SampleValues}
           \cup {<< <<W, v>>, <<H, u>> >> : v \in SampleValues, u \in SampleValues}
           \cup {<< <<H, u>>, <<W, v>> >> : v \in SampleValues, u \in SampleValues}

BuildExample ==
    [template |-> <<"{", "n", "a", "m", "e", "}", "_", "{", "w", "i", "d", "t", "h", "}", ".", "o", "b", "j">>, obj_name |-> <<"P", "a", "r", "t", " ", "A">>, map |-> << <<<<"w", "i", "d", "t", "h">>, PyFloat(12, 0)>> >>]

\* a parameter whose name is a prefix of another parameter's name
PrefixExample ==
    [template |-> Placeholder(<<"w", "2">>) \o <<"_">> \o Placeholder(W) \o <<"_">> \o NamePlaceholder,
     obj_name |-> <<"A">>,
     map |-> << <<W, PyStr(<<"x">>)>>, <<<<"w", "2">>, PyStr(<<"y">>)>> >>]

BuildInputs ==
    {[template |-> t, obj_name |-> n, map |-> m] :
        t \in BuildTemplates, n \in ObjNames, m \in ValueMaps} \cup {BuildExample, PrefixExample}

InitFn(ins) ==
    /\ fn_in \in ins
    /\ fn_out = NotRun
    /\ fn_pc = "call"
    /\ DriverIdle

Call(result) ==
    /\ fn_pc = "call"
    /\ fn_out' = result
    /\ fn_pc' = "ret"
    /\ UNCHANGED <<fn_in, driverVars>>

InitNum == InitFn(StrsUpTo(NumAlphabet, MaxLen) \cup NumExamples)
CallParseValues == Call(_parse_values_list(fn_in))
SpecNum == InitNum /\ [][CallParseValues]_vars

InitText == InitFn(StrsUpTo(TextAlphabet, MaxLen) \cup TextExamples)
CallParseText == Call(_parse_text_values_list(fn_in))
SpecText == InitText /\ [][CallParseText]_vars

InitProduct == InitFn(ProductInputs)
CallProduct == Call(all_combos(fn_in.names, fn_in.values))
SpecProduct == InitProduct /\ [][CallProduct]_vars

InitTemplate == InitFn(TemplateInputs)
CallValidateTemplate == Call(_validate_filename_template(fn_in.template, fn_in.names, fn_in.ext))
SpecTemplate == InitTemplate /\ [][CallValidateTemplate]_vars

InitBuild == InitFn(BuildInputs)
CallBuildFilename == Call(_build_filename(fn_in.template, fn_in.obj_name, fn_in.map))
SpecBuild == InitBuild /\ [][CallBuildFilename]_vars

Returned == fn_pc = "ret"

(***************************************************************************)
(* Properties of the export driver (specification Spec)                    *)
(***************************************************************************)
Pre == hist.pre.design

ExpressionsRestored == \A p \in hist.written : design.expression[p] = Pre.expression[p]

VisibilityRestored == design.bodyVis = Pre.bodyVis /\ design.occVis = Pre.occVis

CancelledBox == [box |-> "Export cancelled."]
SuccessBox == [box |-> "Success: exports complete."]

\* C1: whichever way a run ends, every parameter the run wrote has its
\* pre-run expression again when the handler returns; the cached original of
\* a parameter is the pre-run expression, whatever combination is being
\* written.
C1_ParametersRestored ==
    /\ pc # "idle" =>
          \A p \in DOMAIN loop.orig_param_expr : loop.orig_param_expr[p] = Pre.expression[p]
    /\ pc # "idle" => hist.written \subseteq DOMAIN loop.orig_param_expr
    /\ pc = "done" => ExpressionsRestored

\* a run cancelled in its second combination, after both parameters were written twice
C1_Witness ==
    /\ pc = "done"
    /\ hist.written = {H, D}
    /\ loop.combo_idx = 2
    /\ messages = <<CancelledBox>>

\* C2: whichever way a run ends and whatever the format, every body and
\* occurrence flag equals the pre-run snapshot when the handler returns.
C2_VisibilityRestored ==
    pc = "done" =>
        /\ VisibilityRestored
        /\ design.bodyVis = run.orig_body_vis
        /\ design.occVis = run.orig_occ_vis

\* a STEP run whose export call raised while the scene was isolated
C2_Witness ==
    /\ pc = "done"
    /\ run.fmt_name = "STEP"
    /\ loop.exc.set /\ loop.exc.type = "HostError"
    /\ hist.export_returns = 1
    /\ Pre.occVis["O2"] /\ ~Pre.bodyVis["B1"]
    /\ run.objects[1].ref = "B1"

\* C3: after an export call returned failure no further export call is made
\* (none for a later object or combination, no retry), no later combination
\* is written, and the run ends with the failure box naming the failed path.
C3_ExportFailureAborts ==
    hist.failed.set =>
        /\ Len(hist.exports) = hist.failed.exports
        /\ hist.export_returns = hist.failed.exports
        /\ hist.last_set_combo = hist.failed.combo
        /\ pc \in {"finally", "done"}
        /\ pc = "done" =>
              /\ Len(messages) = 1
              /\ messages[1].box = "Execute failed:"
              /\ messages[1].exc.type = "RuntimeError"
              /\ messages[1].exc.path = hist.exports[hist.failed.exports].path

\* the first export of a run with two combinations and two objects fails
C3_Witness ==
    /\ pc = "done"
    /\ hist.failed.set /\ hist.failed.combo = 1 /\ hist.failed.obj = 1
    /\ Len(run.all_combos) = 2 /\ Len(run.objects) = 2

\* C4: a run that entered the loop performs the restoration block exactly
\* once: never before the loop is left, once when the handler has returned,
\* on the success, cancellation, failure and exception paths alike; the
\* block restores the expressions and the snapshot, hides the progress
\* dialog, and exactly one recompute follows the last parameter write.
C4_RestorationOnce ==
    /\ pc \in {"combo", "object", "export", "exporting", "finally"} =>
          hist.n_restore = 0
    /\ pc = "done" =>
          /\ hist.n_restore = 1
          /\ ~prog.shown
          /\ design.computes_since_write = 1
          /\ ExpressionsRestored
          /\ VisibilityRestored

\* an export failure in the second combination
C4_Witness ==
    /\ pc = "done"
    /\ hist.failed.set /\ hist.failed.combo = 2
    /\ hist.n_restore = 1

\* C5: there is one cancellation check per progress update and none
\* elsewhere; an export call that began returns before the loop is left; once
\* a progress update finds the request, no export call and no write of a
\* later combination follows, the run ends with the cancellation box alone
\* and with everything restored.
C5_CooperativeCancel ==
    /\ hist.cancel_checks = loop.step
    /\ pc = "exporting" => hist.export_returns = Len(hist.exports) - 1
    /\ pc \in {"object", "combo", "finally", "done"} => hist.export_returns = Len(hist.exports)
    /\ hist.cancel_seen.set =>
          /\ Len(hist.exports) = hist.cancel_seen.exports
          /\ hist.last_set_combo = hist.cancel_seen.combo
          /\ pc \in {"finally", "done"}
          /\ messages = <<CancelledBox>>
    /\ (hist.cancel_seen.set /\ pc = "done") =>
          /\ hist.n_restore = 1
          /\ ExpressionsRestored
          /\ VisibilityRestored

\* the request arrived during the first export call and was found at the
\* second progress update, with work left to do
C5_Witness ==
    /\ pc = "done"
    /\ hist.cancel_seen.set
    /\ hist.cancel_seen.exports = 1
    /\ run.total > 1

(***************************************************************************)
(* Properties of the pure functions                                        *)
(***************************************************************************)
RECURSIVE LenProd(_, _)
LenProd(pools, i) == IF i > Len(pools) THEN 1 ELSE Len(pools[i]) * LenProd(pools, i + 1)

Pools == [i \in 1..Len(fn_in.names) |-> fn_in.values[fn_in.names[i]]]

\* C6: the combinations are the full Cartesian product, materialised: their
\* number is the product of the list lengths, and the k-th tuple holds, for
\* the i-th declared parameter, the value at list position
\* ((k-1) div (product of the later lengths)) mod (its length): lexicographic
\* by position, the last parameter fastest, duplicates kept.
C6_CartesianProduct ==
    Returned =>
        /\ Len(fn_out) = LenProd(Pools, 1)
        /\ \A k \in 1..Len(fn_out) :
              /\ Len(fn_out[k]) = Len(Pools)
              /\ \A i \in 1..Len(Pools) :
                    fn_out[k][i] =
                        Pools[i][(((k - 1) \div LenProd(Pools, i + 1)) % Len(Pools[i])) + 1]
        /\ fn_in = ProductExample =>
              fn_out = << <<10, 1>>, <<10, 2>>, <<10, 3>>, <<20, 1>>, <<20, 2>>, <<20, 3>> >>

\* two parameters, the first list holding a duplicate value
C6_Witness ==
    /\ Returned
    /\ fn_in.names = <<H, W>>
    /\ fn_in.values[H] = <<1, 1>> /\ fn_in.values[W] = <<1, 2>>
    /\ fn_out = << <<1, 1>>, <<1, 2>>, <<1, 1>>, <<1, 2>> >>

\* the claimed result: placeholders replaced one after the other by the
\* sanitized str() of the values
SanitizedStr(v) == strip(SelectSeq(py_str(v), LAMBDA c : c \notin IllegalChars))

RECURSIVE Substituted(_, _)
Substituted(out, items) ==
    IF items = <<>> THEN out
    ELSE Substituted(Replace(out, Placeholder(items[1][1]), SanitizedStr(items[1][2])), Tail(items))

\* C7: for numeric and text values alike _build_filename returns the template
\* with {name} and every {param} replaced by the sanitized string forms, and
\* the documented example gives Part_A_12.0.obj.
C7_BuildFilenameTotal ==
    Returned =>
        /\ fn_out.ok
        /\ fn_out.val = Substituted(Replace(fn_in.template, NamePlaceholder,
                                            SanitizedStr(PyStr(fn_in.obj_name))), fn_in.map)
        /\ fn_in = BuildExample => fn_out.val = <<"P", "a", "r", "t", "_", "A", "_", "1", "2", ".", "0", ".", "o", "b", "j">>

\* the documented call: the float value makes the sanitizer raise
C7_Witness ==
    /\ Returned
    /\ fn_in = BuildExample
    /\ fn_out = [ok |-> FALSE, err |-> "TypeError"]

Occurs(sub, s) ==
    \E i \in 0..(Len(s) - Len(sub)) : \A j \in 1..Len(sub) : s[i + j] = sub[j]

\* C8: validation succeeds exactly for a non-empty template holding {name}
\* and the placeholder of every selected parameter; when placeholders are
\* missing the message lists each missing one and no other; the extension
\* has no influence.
C8_TemplateValidation ==
    Returned =>
        LET t     == fn_in.template
            names == fn_in.names
            miss  == {i \in 1..Len(names) : ~Occurs(Placeholder(names[i]), t)}
        IN  /\ fn_out.ok <=> (t # <<>> /\ Occurs(NamePlaceholder, t) /\ miss = {})
            /\ (t # <<>> /\ Occurs(NamePlaceholder, t) /\ miss # {}) =>
                  /\ fn_out.msg = "Filename template is missing placeholders: "
                  /\ \A i \in 1..Len(names) :
                        Occurs(Placeholder(names[i]), fn_out.list) <=> i \in miss
            /\ \A x \in Exts : _validate_filename_template(t, names, x) = fn_out

\* {name} is there and both selected placeholders are missing
C8_Witness ==
    /\ Returned
    /\ fn_in.template = NamePlaceholder
    /\ fn_in.names = <<W, H>>
    /\ ~fn_out.ok
    /\ fn_out.list = <<"{", "w", "}", ",", " ", "{", "h", "}">>

\* which quotes toggle the in-quotes flag: all of them, or (escaped) only
\* those not preceded by a backslash
Toggles(raw, i, escaped) ==
    raw[i] = "'" /\ (escaped => (i = 1 \/ raw[i - 1] # "\\"))

InQuotesAt(raw, i, escaped) ==
    Cardinality({j \in 1..(i - 1) : Toggles(raw, j, escaped)}) % 2 = 1

\* the segments between the separator positions seps, in input order
RECURSIVE SegmentsFrom(_, _, _)
SegmentsFrom(raw, from, seps) ==
    IF \A b \in seps : b < from THEN <<SubSeq(raw, from, Len(raw))>>
    ELSE LET b == CHOOSE b \in seps : b >= from /\ \A c \in seps : c >= from => b <= c
         IN  <<SubSeq(raw, from, b - 1)>> \o SegmentsFrom(raw, b + 1, seps)

Tokens(raw, seps) ==
    LET segs == SegmentsFrom(raw, 1, seps)
    IN  SelectSeq([i \in 1..Len(segs) |-> strip(segs[i])], LAMBDA t : t # <<>>)

IsQuotedLiteral(tok) ==
    /\ Len(tok) >= 2
    /\ tok[1] = "'" /\ tok[Len(tok)] = "'"
    /\ \A i \in 2..(Len(tok) - 1) : tok[i] # "'"

TextParse(raw, escaped) ==
    LET toks == Tokens(raw, {i \in 1..Len(raw) : raw[i] = ";" /\ ~InQuotesAt(raw, i, escaped)})
    IN  IF raw = <<>> \/ toks = <<>> \/ \E i \in 1..Len(toks) : ~IsQuotedLiteral(toks[i])
        THEN [ok |-> FALSE]
        ELSE [ok |-> TRUE,
              vals |-> [i \in 1..Len(toks) |-> PyStr(SubSeq(toks[i], 2, Len(toks[i]) - 1))]]

TextParsedAs(escaped) ==
    Returned =>
        LET want == TextParse(fn_in, escaped)
        IN  /\ fn_out.ok = want.ok
            /\ want.ok => fn_out.vals = want.vals

\* C9 as amended: a quote that directly follows a backslash does not toggle
\* the in-quotes flag; every other quote does.  With that, the parser splits
\* on ';' outside quote spans, requires the form '...' of every non-empty
\* trimmed token, returns the unwrapped values in order and raises for an
\* empty input or when no token remains.
C9_TextParserEscapedQuotes ==
    /\ TextParsedAs(TRUE)
    /\ (Returned /\ fn_in = <<"'", "a", "'", ";", " ", "'", "b", ";", "c", "'", ";", " ", "'", "d", "'">>) =>
          fn_out = [ok |-> TRUE, vals |-> <<PyStr(<<"a">>), PyStr(<<"b", ";", "c">>), PyStr(<<"d">>)>>]

\* C9 as claimed: every single-quote character toggles the in-quotes flag.
C9_TextParserEveryQuote == TextParsedAs(FALSE)

\* the example with a semicolon inside quotes
C9_Witness ==
    /\ Returned
    /\ fn_in = <<"'", "a", "'", ";", " ", "'", "b", ";", "c", "'", ";", " ", "'", "d", "'">>
    /\ fn_out.ok /\ Len(fn_out.vals) = 3

IsNumberToken(tok) ==
    LET body == IF tok[1] \in {"+", "-"} THEN Tail(tok) ELSE tok
    IN  /\ \A i \in 1..Len(body) : IsDigit(body[i]) \/ body[i] = "."
        /\ Cardinality({i \in 1..Len(body) : body[i] = "."}) <= 1
        /\ \E i \in 1..Len(body) : IsDigit(body[i])

\* the digits of a number token as an integer, and how many of them follow the point
RECURSIVE DigitSum(_, _)
DigitSum(ds, i) ==
    IF i > Len(ds) THEN 0 ELSE DigitVal(ds[i]) * Pow10(Len(ds) - i) + DigitSum(ds, i + 1)

TokenDigits(tok) == SelectSeq(tok, IsDigit)

TokenFracLen(tok) ==
    IF \E i \in 1..Len(tok) : tok[i] = "."
    THEN Len(tok) - (CHOOSE i \in 1..Len(tok) : tok[i] = ".")
    ELSE 0

\* the float f is the number written by tok
IsValueOf(f, tok) ==
    /\ f.t = "float"
    /\ f.m * Pow10(TokenFracLen(tok)) =
          (IF tok[1] = "-" THEN -1 ELSE 1) * DigitSum(TokenDigits(tok), 1) * Pow10(f.e)
    /\ f.e = 0 \/ f.m % 10 # 0

\* C10: the numeric parser returns the numbers written by the non-empty
\* trimmed tokens between the semicolons, in input order, and raises (no
\* empty and no partial list) for an empty input, when no token remains, or
\* when some non-empty token is not a number.
C10_NumericParser ==
    Returned =>
        LET toks == Tokens(fn_in, {i \in 1..Len(fn_in) : fn_in[i] = ";"})
            good == fn_in # <<>> /\ toks # <<>> /\ \A i \in 1..Len(toks) : IsNumberToken(toks[i])
        IN  /\ fn_out.ok = good
            /\ good => /\ Len(fn_out.vals) = Len(toks)
                       /\ \A i \in 1..Len(toks) : IsValueOf(fn_out.vals[i], toks[i])
            /\ fn_in = <<"1", ";", " ", "5", ".", "5", ";", " ", "1", "2">> => fn_out = [ok |-> TRUE, vals |-> <<PyFloat(1, 0), PyFloat(55, 1), PyFloat(12, 0)>>]
            /\ fn_in \in {<<>>, <<";">>, <<"a", ";", "b">>, <<"1", ";", "x">>} => ~fn_out.ok

\* a number after the separator, then a token that is no number
C10_Witness ==
    /\ Returned
    /\ fn_in = <<"1", ";", "x">>
    /\ ~fn_out.ok

(***************************************************************************)
(* Further properties of the export driver                                 *)
(***************************************************************************)
NObjects == Len(run.objects)

\* the k-th pair of the cross product, combination-major
PairCombo(k) == ((k - 1) \div NObjects) + 1
PairObject(k) == ((k - 1) % NObjects) + 1

\* C11: the total is |combinations| x |objects| and is the dialog's maximum
\* from the start; the progress counter is 0 before the first pair, equals
\* the number of pairs reached (the pair's position in combination-major
\* order) and never exceeds the total; export calls are made for the pairs
\* in that order, one each; a run that shows the success box made total
\* progress updates and total export calls.
C11_ProgressCounts ==
    run.started =>
        /\ run.total = Len(run.all_combos) * NObjects
        /\ prog.maximumValue = run.total
        /\ prog.progressValue = loop.step
        /\ loop.step <= run.total
        /\ (pc = "combo" /\ loop.combo_idx = 0) => prog.progressValue = 0
        /\ pc \in {"export", "exporting"} =>
              loop.step = (loop.combo_idx - 1) * NObjects + loop.obj_idx
        /\ Len(hist.exports) <= loop.step
        /\ \A k \in 1..Len(hist.exports) :
              /\ hist.exports[k].combo = PairCombo(k)
              /\ hist.exports[k].obj = PairObject(k)
              /\ hist.exports[k].ref = run.objects[PairObject(k)].ref
        /\ (\E i \in 1..Len(messages) : messages[i] = SuccessBox) =>
              /\ loop.step = run.total
              /\ Len(hist.exports) = run.total
              /\ hist.export_returns = run.total

\* a successful run over two combinations and two objects
C11_Witness ==
    /\ pc = "done"
    /\ messages = <<SuccessBox>>
    /\ Len(run.all_combos) = 2 /\ NObjects = 2
    /\ prog.progressValue = 4

\* what each check of the dialog asks for
ObjectsChosen == inputs.chk_items # {}

ParamsChosen == inputs.chk_params # {}

FieldParsable(p) ==
    LET txt == strip(inputs.txt_values[p])
    IN  IF valueType(p) = 1 THEN TextParse(txt, TRUE).ok
        ELSE LET toks == Tokens(txt, {i \in 1..Len(txt) : txt[i] = ";"})
             IN  txt # <<>> /\ toks # <<>> /\ \A i \in 1..Len(toks) : IsNumberToken(toks[i])

ParamsParsable == \A p \in inputs.chk_params : FieldParsable(p)

TemplateFilled == strip(inputs.template) # <<>>

TemplateNamed == Occurs(NamePlaceholder, strip(inputs.template))

TemplateComplete == \A p \in inputs.chk_params : Occurs(Placeholder(p), strip(inputs.template))

FolderExists == _normalize_path(inputs.out_dir) \in ExistingDirs

FolderWritable == _normalize_path(inputs.out_dir) \in WritableDirs

InputsAcceptable ==
    /\ ObjectsChosen /\ ParamsChosen /\ ParamsParsable
    /\ TemplateFilled /\ TemplateNamed /\ TemplateComplete
    /\ FolderExists /\ FolderWritable

\* the message of the first check that fails, in the order of the checks
FirstFailure ==
    IF ~ObjectsChosen THEN "Select at least one body or component."
    ELSE IF ~ParamsChosen THEN "Select at least one parameter."
    ELSE IF ~ParamsParsable
    THEN "All selected parameters must have semicolon-separated constant values."
    ELSE IF ~TemplateFilled THEN "Filename template is empty."
    ELSE IF ~TemplateNamed THEN "Filename template must include {name}."
    ELSE IF ~TemplateComplete THEN "Filename template is missing placeholders: "
    ELSE IF ~FolderExists THEN "Output folder must exist."
    ELSE "Output folder is not writable."

Target == run.objects[loop.obj_idx]

TargetVisible ==
    IF Target.kind = "body" THEN design.bodyVis[Target.ref] ELSE design.occVis[Target.ref]

\* C13: while a STEP export call runs, the target is visible and every
\* other root body and every other root occurrence is hidden, for a body
\* target and for a component target alike (root bodies and root occurrences
\* have no owner above them).
C13_IsolatedAtStepExport ==
    (pc = "exporting" /\ run.fmt_name = "STEP") =>
        /\ TargetVisible
        /\ \A b \in Bodies \ {Target.ref} : ~design.bodyVis[b]
        /\ \A o \in Occs \ {Target.ref} : ~design.occVis[o]

\* a component is exported to STEP while a root body is still shown
C13_Witness ==
    /\ pc = "exporting" /\ run.fmt_name = "STEP"
    /\ Target = [kind |-> "component", ref |-> "O1", name |-> EntityName("O1")]
    /\ design.occVis = [o \in Occs |-> o = "O1"]
    /\ design.bodyVis["B1"]

\* the body case of the isolation alone
C13_BodyTargetIsolated ==
    (pc = "exporting" /\ run.fmt_name = "STEP" /\ Target.kind = "body") =>
        /\ design.bodyVis = [b \in Bodies |-> b = Target.ref]
        /\ design.occVis = [o \in Occs |-> FALSE]

FlagsAsSnapshot == design.bodyVis = run.orig_body_vis /\ design.occVis = run.orig_occ_vis

\* the handler is about to update the progress dialog, to write parameters
\* (a combination's values, or the originals in the finally block) or to
\* make or finish a per-entity export call
AtUpdateWriteOrMeshExport ==
    \/ pc = "object"
    \/ pc = "combo" /\ loop.combo_idx < Len(run.all_combos)
    \/ pc = "finally" /\ DOMAIN loop.orig_param_expr # {}
    \/ pc \in {"export", "exporting"} /\ ~is_step(run.fmt_name)

\* the export call of the current object raised
ExportRaised ==
    /\ pc = "finally"
    /\ loop.exc.set /\ loop.exc.type = "HostError"
    /\ hist.exports # <<>>
    /\ hist.exports[Len(hist.exports)].combo = loop.combo_idx
    /\ hist.exports[Len(hist.exports)].obj = loop.obj_idx

\* C14 as claimed: at every progress update, parameter write and per-entity
\* export call the flags equal the snapshot; a mesh run never changes a
\* flag; in a STEP run the flags differ from the snapshot only while the
\* export call of an isolated object runs.
C14_FlagsOnlyDuringStepExport ==
    run.started =>
        /\ AtUpdateWriteOrMeshExport => FlagsAsSnapshot
        /\ ~is_step(run.fmt_name) => FlagsAsSnapshot
        /\ ~FlagsAsSnapshot => pc = "exporting"

\* C14 as amended: the flags equal the snapshot at every progress update, at
\* every write of a combination's values and at every per-entity export
\* call; a mesh run never changes a flag; in a STEP run the flags differ
\* from the snapshot only from the isolation of an object to the next
\* restore, which directly follows the export call when that call returns
\* (success or failure) and is the one of the finally block when that call
\* raises: then the originals are written back while the object is still
\* isolated.
C14_FlagsUntilNextRestore ==
    run.started =>
        /\ (AtUpdateWriteOrMeshExport /\ ~ExportRaised) => FlagsAsSnapshot
        /\ ~is_step(run.fmt_name) => FlagsAsSnapshot
        /\ ~FlagsAsSnapshot => (pc = "exporting" \/ ExportRaised)
        /\ hist.failed.set => FlagsAsSnapshot
        /\ (is_step(run.fmt_name) /\ (pc = "exporting" \/ ExportRaised)) =>
              design = _isolate_for_step([design EXCEPT !.bodyVis = run.orig_body_vis,
                                                        !.occVis = run.orig_occ_vis],
                                         Target.kind, Target.ref)

\* a STEP export call returned failure: the flags are the snapshot again
\* before the finally block runs, and they are not those of the isolation
C14_Witness ==
    /\ pc = "finally"
    /\ is_step(run.fmt_name)
    /\ hist.failed.set
    /\ FlagsAsSnapshot
    /\ design.occVis["O1"] /\ design.occVis["O2"]

\* the combination of the export call in progress
CurrentCombo == run.all_combos[loop.combo_idx]

\* the live value the claim states for a combination's value
ClaimedLive(p, v) ==
    IF valueType(p) = 1 THEN <<"'">> \o v.s \o <<"'">>
    ELSE py_str(v) \o <<" ">> \o unit(p)

\* the same with the text value trimmed
TrimmedLive(p, v) ==
    IF valueType(p) = 1 THEN <<"'">> \o strip(v.s) \o <<"'">>
    ELSE py_str(v) \o <<" ">> \o unit(p)

\* C15: while an export call for a pair of combination i runs, every
\* selected parameter holds the value of combination i (numeric: value,
\* blank, unit; text: the value in single quotes), exactly one recompute was
\* triggered since the last parameter write, and the parameters were written
\* for combination i and not again for the object; a failed recompute does
\* not end the run.
C15_LiveValuesAtExport ==
    /\ pc \in {"export", "exporting"} =>
          /\ \A k \in 1..Len(run.sel_param_names) :
                design.expression[run.sel_param_names[k]] =
                    ClaimedLive(run.sel_param_names[k], CurrentCombo[k])
          /\ design.computes_since_write = 1
          /\ hist.last_set_combo = loop.combo_idx
    /\ hist.compute_failed => (loop.exc.set => loop.exc.type # "ComputeError")

\* the value list of h is ' a': the export call runs with h = 'a'
C15_Witness ==
    /\ pc = "exporting"
    /\ run.sel_param_names = <<H>>
    /\ CurrentCombo = <<PyStr(<<" ", "a">>)>>
    /\ design.expression[H] = <<"'", "a", "'">>

\* what holds at an export call: the trimmed values, one recompute since the
\* write, one write per combination; after the writes of a combination also
\* for a numeric parameter
C15_TrimmedValuesLive ==
    /\ pc \in {"object", "export", "exporting"} =>
          /\ \A k \in 1..Len(run.sel_param_names) :
                design.expression[run.sel_param_names[k]] =
                    TrimmedLive(run.sel_param_names[k], CurrentCombo[k])
          /\ design.computes_since_write = 1
          /\ hist.last_set_combo = loop.combo_idx
    /\ pc = "exporting" => \A k \in 1..Len(run.sel_param_names) : valueType(run.sel_param_names[k]) = 1

\* os.path.dirname of an export path
DirName(path) ==
    LET slashes == {i \in 1..Len(path) : path[i] = "/"}
        head    == IF slashes = {} THEN <<>>
                   ELSE SubSeq(path, 1, CHOOSE i \in slashes : \A j \in slashes : j <= i)
    IN  IF \A i \in 1..Len(head) : head[i] = "/" THEN head ELSE rstrip_chars(head, {"/"})

\* C16: every export call writes into the directory that validation found
\* existing and writable, the normalized form of the output-folder field,
\* whatever accepted form the field has (quotes, ~, . or ..).
C16_ExportsIntoValidatedFolder ==
    \A k \in 1..Len(hist.exports) :
        os_path_normpath(DirName(hist.exports[k].path)) = _normalize_path(inputs.out_dir)

\* the field holds '~' in quotes: validation accepted the home folder, the
\* export call is given a path below a folder named '~' with the quotes
C16_Witness ==
    /\ pc = "exporting"
    /\ inputs.out_dir = <<"'", "~", "'">>
    /\ valid.areInputsValid
    /\ _normalize_path(inputs.out_dir) = Home
    /\ hist.exports[1].path = <<"'", "~", "'", "/", "A", "_", "a", ".", "s", "t", "l">>

\* the accepted fields for which the export path does lie in the validated folder
C16_PlainAndDottedFolders ==
    inputs.out_dir \in {OutDir, <<>>, <<" ", "/", "o", "/", " ">>, <<"/", "o", "/", ".", ".", "/", "o">>} =>
        C16_ExportsIntoValidatedFolder

(***************************************************************************)
(* Substitution order of the filename templater (specification SpecBuild)  *)
(***************************************************************************)
\* the placeholders of a call and their replacements: {name} and one per map item
Replacements ==
    << <<NamePlaceholder, SanitizedStr(PyStr(fn_in.obj_name))>> >> \o
    [k \in 1..Len(fn_in.map) |-> <<Placeholder(fn_in.map[k][1]), SanitizedStr(fn_in.map[k][2])>>]

StartsAt(t, i, sub) ==
    /\ i + Len(sub) - 1 <= Len(t)
    /\ \A j \in 1..Len(sub) : t[i + j - 1] = sub[j]

\* all placeholders of the original template replaced at once, left to right
RECURSIVE Simultaneous(_, _, _)
Simultaneous(t, i, reps) ==
    IF i > Len(t) THEN <<>>
    ELSE IF \E k \in 1..Len(reps) : StartsAt(t, i, reps[k][1])
    THEN LET k == CHOOSE k \in 1..Len(reps) : StartsAt(t, i, reps[k][1])
         IN  reps[k][2] \o Simultaneous(t, i + Len(reps[k][1]), reps)
    ELSE <<t[i]>> \o Simultaneous(t, i + 1, reps)

TextValuesOnly == \A k \in 1..Len(fn_in.map) : fn_in.map[k][2].t = "str"

ValidatedTemplate ==
    /\ fn_in.template # <<>>
    /\ Occurs(NamePlaceholder, fn_in.template)
    /\ \A k \in 1..Len(fn_in.map) : Occurs(Placeholder(fn_in.map[k][1]), fn_in.template)

\* C17: for a validated template and text values the result is the
\* simultaneous replacement of the placeholders of the original template: no
\* substitution touches another placeholder or a text that an earlier
\* substitution inserted, so the order of the substitutions is immaterial.
C17_SimultaneousReplacement ==
    (Returned /\ TextValuesOnly /\ ValidatedTemplate) =>
        /\ fn_out.ok
        /\ fn_out.val = Simultaneous(fn_in.template, 1, Replacements)

\* the object is named {w}: the inserted name is rewritten by the
\* substitution of w
C17_Witness ==
    /\ Returned
    /\ fn_in.template = NamePlaceholder \o <<"_">> \o Placeholder(W)
    /\ fn_in.obj_name = Placeholder(W)
    /\ fn_in.map = << <<W, PyStr(<<"x">>)>> >>
    /\ fn_out = [ok |-> TRUE, val |-> <<"x", "_", "x">>]

\* when no inserted text holds a brace the result is the simultaneous
\* replacement, also for a parameter name that is a prefix of another
C17_BraceFreeInsertions ==
    (Returned /\ TextValuesOnly /\ ValidatedTemplate
       /\ \A k \in 1..Len(Replacements) : \A j \in 1..Len(Replacements[k][2]) :
             Replacements[k][2][j] \notin {"{", "}"}) =>
        /\ fn_out.ok
        /\ fn_out.val = Simultaneous(fn_in.template, 1, Replacements)

====
